---- MODULE Spec2Model ----
(***************************************************************************)
(* Model of lazy.Func (src/lazy.go): a context-aware, retry-on-error lazy  *)
(* initialiser.  One accessor (one struct d) is shared by NumProcs         *)
(* goroutines, each of which calls the accessor as many times as the       *)
(* workload of the run says, with a fresh context per call.  Two workloads *)
(* are analysed: DeepProcs goroutines that call MaxCalls times each, and   *)
(* NumProcs goroutines that call WideCalls times each.                     *)
(*                                                                         *)
(* Every shared-memory access of the accessor                              *)
(* is one step: the atomic loads and stores of d.done, the select on       *)
(* d.sem / ctx.Done(), the call of d.f, the writes of d.value and d.f, the *)
(* evaluation of the return operands and the deferred receive on d.sem.    *)
(*                                                                         *)
(* The select statement follows the Go language rules: if one or more      *)
(* communications can proceed one of them is chosen nondeterministically,  *)
(* otherwise the goroutine blocks until the first of its communications    *)
(* can proceed.  A blocked sender on the full buffered channel is resumed  *)
(* by the receive that makes room (the token is handed over), a goroutine  *)
(* blocked on ctx.Done() is resumed by the cancellation of its context.    *)
(***************************************************************************)
EXTENDS Integers, FiniteSets, Sequences, TLC

\* ---- bounds --------------------------------------------------------------
NumProcs == 3
DeepProcs == 2
MaxCalls == 2
WideCalls == 1
MaxVal == 2

\* ---- constants of the program --------------------------------------------
\* Variant: the semaphore is made with room for two tokens.
SemCapTwo == 1 + 1

SemCap == 1
Zero == 0

Nil == "nil"
Canceled == "context.Canceled"
DeadlineExceeded == "context.DeadlineExceeded"
errTemporary == "errTemporary"

Procs == 1..NumProcs
Values == Zero..MaxVal
CtxErrs == {Canceled, DeadlineExceeded}

VARIABLES
    done,      \* d.done
    sem,       \* number of tokens buffered in d.sem
    value,     \* d.value
    f,         \* d.f: "f" (the producer) or Nil
    pc,        \* position of each goroutine inside the accessor
    ncalls,    \* number of accessor calls each goroutine has started
    quota,     \* number of accessor calls each goroutine makes in this run
    ctxErr,    \* ctx.Err() of the context of each goroutine's current call
    lvalue,    \* local `value` of the call (result of d.f)
    lerr,      \* local `err` of the call (result of d.f)
    ret,       \* the operands of the return statement the call executed
    via,       \* which return statement (or panic) ended / is ending the call
    calls,     \* number of times the body of the producer was entered
    fctx,      \* the context parameter of the producer invocation in progress
    produced,  \* the values returned by the producer with a nil error, in order
    failed,    \* number of producer invocations that returned an error or panicked
    startDone  \* value of d.done at the moment the current call started

vars == <<done, sem, value, f, pc, ncalls, quota, ctxErr, lvalue, lerr, ret, via,
          calls, fctx, produced, failed, startDone>>

shared == <<done, sem, value, f>>
hist == <<calls, fctx, produced, failed>>

NoRet == [val |-> Zero, err |-> Nil]

\* The context a goroutine passes on its current call: fresh for every call.
Ctx(p) == <<p, ncalls[p]>>
NoCtx == <<0, 0>>

\* Goroutines that sent their token and have not yet run the deferred receive.
HoldPcs == {"recheck", "read2", "invoke", "inF", "checkerr", "store_done",
            "clear_f", "read3", "release"}
Holding(p) == pc[p] \in HoldPcs
Holders == {p \in Procs : Holding(p)}
Parked == {p \in Procs : pc[p] = "parked"}

\* The workload of repeated calls (TestFunc_ExecutesOnce,
\* TestFunc_ErrorAllowsRetry): the first DeepProcs goroutines call the
\* accessor MaxCalls times each, the others never call it.
DeepLoad == [p \in Procs |-> IF p <= DeepProcs THEN MaxCalls ELSE 0]

\* The workload of TestFunc_ConcurrentCalls: every goroutine calls the
\* accessor WideCalls times.
WideLoad == [p \in Procs |-> WideCalls]

\* The state after Func(f) returned the accessor, before any call, in a run
\* whose goroutines make q[p] calls.
Start(q) ==
    /\ quota = q
    /\ done = FALSE
    /\ sem = 0
    /\ value = Zero
    /\ f = "f"
    /\ pc = [p \in Procs |-> "idle"]
    /\ ncalls = [p \in Procs |-> 0]
    /\ ctxErr = [p \in Procs |-> Nil]
    /\ lvalue = [p \in Procs |-> Zero]
    /\ lerr = [p \in Procs |-> Nil]
    /\ ret = [p \in Procs |-> NoRet]
    /\ via = [p \in Procs |-> "none"]
    /\ calls = 0
    /\ fctx = NoCtx
    /\ produced = <<>>
    /\ failed = 0
    /\ startDone = [p \in Procs |-> FALSE]

Init == Start(DeepLoad)
WideInit == Start(WideLoad)

\* Variant: there is no first check, every call goes to the select.
CallNoFastPath(p) ==
    /\ pc[p] = "idle"
    /\ ncalls[p] < quota[p]
    /\ ncalls' = [ncalls EXCEPT ![p] = @ + 1]
    /\ pc' = [pc EXCEPT ![p] = "select"]
    /\ \E e \in {Nil} \cup CtxErrs : ctxErr' = [ctxErr EXCEPT ![p] = e]
    /\ startDone' = [startDone EXCEPT ![p] = done]
    /\ UNCHANGED <<shared, hist, quota, lvalue, lerr, ret, via>>

\* Variant: the accessor looks at its context before anything else and
\* gives up when it is already canceled.
CallChecksCtxFirst(p) ==
    /\ pc[p] = "idle"
    /\ ncalls[p] < quota[p]
    /\ ncalls' = [ncalls EXCEPT ![p] = @ + 1]
    /\ \E e \in {Nil} \cup CtxErrs :
         /\ ctxErr' = [ctxErr EXCEPT ![p] = e]
         /\ pc' = [pc EXCEPT ![p] = IF e # Nil THEN "canceled"
                                    ELSE IF done THEN "read1" ELSE "select"]
    /\ startDone' = [startDone EXCEPT ![p] = done]
    /\ UNCHANGED <<shared, hist, quota, lvalue, lerr, ret, via>>

\* A goroutine calls the accessor with a fresh context, which may already be
\* canceled, and executes the first check:
\* if d.done.Load() {
Call(p) ==
    /\ pc[p] = "idle"
    /\ ncalls[p] < quota[p]
    /\ ncalls' = [ncalls EXCEPT ![p] = @ + 1]
    /\ pc' = [pc EXCEPT ![p] = IF done THEN "read1" ELSE "select"]
    /\ \E e \in {Nil} \cup CtxErrs : ctxErr' = [ctxErr EXCEPT ![p] = e]
    /\ startDone' = [startDone EXCEPT ![p] = done]
    /\ UNCHANGED <<shared, hist, quota, lvalue, lerr, ret, via>>

\* Variant: the select has no ctx.Done() case to resume a blocked goroutine.
CancelNoWake(p) ==
    /\ pc[p] # "idle"
    /\ ctxErr[p] = Nil
    /\ \E e \in CtxErrs : ctxErr' = [ctxErr EXCEPT ![p] = e]
    /\ UNCHANGED <<shared, hist, pc, ncalls, quota, lvalue, lerr, ret, via, startDone>>

\* The context of a call in progress is canceled or its deadline expires.
\* A goroutine blocked in the select is resumed with the ctx.Done() case.
Cancel(p) ==
    /\ pc[p] # "idle"
    /\ ctxErr[p] = Nil
    /\ \E e \in CtxErrs : ctxErr' = [ctxErr EXCEPT ![p] = e]
    /\ pc' = [pc EXCEPT ![p] = IF pc[p] = "parked" THEN "woken" ELSE @]
    /\ UNCHANGED <<shared, hist, ncalls, quota, lvalue, lerr, ret, via, startDone>>

\* Variant: the fast path returns the zero value instead of d.value.
Read1Zero(p) ==
    /\ pc[p] = "read1"
    /\ ret' = [ret EXCEPT ![p] = [val |-> Zero, err |-> Nil]]
    /\ via' = [via EXCEPT ![p] = "fast"]
    /\ pc' = [pc EXCEPT ![p] = "return"]
    /\ UNCHANGED <<shared, hist, ncalls, quota, ctxErr, lvalue, lerr, startDone>>

\*     return d.value, nil       (fast path: the operands are evaluated)
Read1(p) ==
    /\ pc[p] = "read1"
    /\ ret' = [ret EXCEPT ![p] = [val |-> value, err |-> Nil]]
    /\ via' = [via EXCEPT ![p] = "fast"]
    /\ pc' = [pc EXCEPT ![p] = "return"]
    /\ UNCHANGED <<shared, hist, ncalls, quota, ctxErr, lvalue, lerr, startDone>>

\* Variant: the select has a default case that goes on as if the send had
\* been made (the goroutine does not wait for the token).
SelectAcquireNoWait(p) ==
    /\ pc[p] = "select"
    /\ sem' = IF sem < SemCap THEN sem + 1 ELSE sem
    /\ pc' = [pc EXCEPT ![p] = "recheck"]
    /\ UNCHANGED <<done, value, f, hist, ncalls, quota, ctxErr, lvalue, lerr, ret, via, startDone>>

\* select: case d.sem <- struct{}{} can proceed and is chosen.
SelectAcquire(p) ==
    /\ pc[p] = "select"
    /\ sem < SemCap
    /\ sem' = sem + 1
    /\ pc' = [pc EXCEPT ![p] = "recheck"]
    /\ UNCHANGED <<done, value, f, hist, ncalls, quota, ctxErr, lvalue, lerr, ret, via, startDone>>

\* Variant: the send on d.sem is made first and ctx.Done() is looked at
\* afterwards, so the cancellation branch is taken with the token sent and
\* the receive deferred.
SelectCanceledAfterSend(p) ==
    /\ pc[p] = "select"
    /\ ctxErr[p] # Nil
    /\ sem < SemCap
    /\ sem' = sem + 1
    /\ ret' = [ret EXCEPT ![p] = [val |-> Zero, err |-> ctxErr[p]]]
    /\ via' = [via EXCEPT ![p] = "cancel"]
    /\ pc' = [pc EXCEPT ![p] = "release"]
    /\ UNCHANGED <<done, value, f, hist, ncalls, quota, ctxErr, lvalue, lerr, startDone>>

\* select: case <-ctx.Done() can proceed and is chosen.
SelectCanceled(p) ==
    /\ pc[p] = "select"
    /\ ctxErr[p] # Nil
    /\ pc' = [pc EXCEPT ![p] = "canceled"]
    /\ UNCHANGED <<shared, hist, ncalls, quota, ctxErr, lvalue, lerr, ret, via, startDone>>

\* select: no communication can proceed, the goroutine blocks.
SelectBlock(p) ==
    /\ pc[p] = "select"
    /\ sem >= SemCap
    /\ ctxErr[p] = Nil
    /\ pc' = [pc EXCEPT ![p] = "parked"]
    /\ UNCHANGED <<shared, hist, ncalls, quota, ctxErr, lvalue, lerr, ret, via, startDone>>

\* Variant: the cancellation branch returns context.Canceled whatever the
\* context reports.
ReturnCanceledFixedErr(p) ==
    /\ pc[p] \in {"canceled", "woken"}
    /\ ret' = [ret EXCEPT ![p] = [val |-> Zero, err |-> Canceled]]
    /\ via' = [via EXCEPT ![p] = "cancel"]
    /\ pc' = [pc EXCEPT ![p] = "return"]
    /\ UNCHANGED <<shared, hist, ncalls, quota, ctxErr, lvalue, lerr, startDone>>

\* Variant: the receive on d.sem is deferred before the select, so the
\* cancellation branch takes a token it never sent.
ReturnCanceledReleases(p) ==
    /\ pc[p] \in {"canceled", "woken"}
    /\ sem > 0
    /\ sem' = sem - 1
    /\ ret' = [ret EXCEPT ![p] = [val |-> Zero, err |-> ctxErr[p]]]
    /\ via' = [via EXCEPT ![p] = "cancel"]
    /\ pc' = [pc EXCEPT ![p] = "return"]
    /\ UNCHANGED <<done, value, f, hist, ncalls, quota, ctxErr, lvalue, lerr, startDone>>

\*     var zero T; return zero, ctx.Err()      (the operands are evaluated)
ReturnCanceled(p) ==
    /\ pc[p] \in {"canceled", "woken"}
    /\ ret' = [ret EXCEPT ![p] = [val |-> Zero, err |-> ctxErr[p]]]
    /\ via' = [via EXCEPT ![p] = "cancel"]
    /\ pc' = [pc EXCEPT ![p] = "return"]
    /\ UNCHANGED <<shared, hist, ncalls, quota, ctxErr, lvalue, lerr, startDone>>

\* Variant: no second check, the producer is invoked right after the send.
RecheckSkipped(p) ==
    /\ pc[p] = "recheck"
    /\ pc' = [pc EXCEPT ![p] = "invoke"]
    /\ UNCHANGED <<shared, hist, ncalls, quota, ctxErr, lvalue, lerr, ret, via, startDone>>

\* Variant: the second check is inverted (if !d.done.Load()).
RecheckInverted(p) ==
    /\ pc[p] = "recheck"
    /\ pc' = [pc EXCEPT ![p] = IF ~done THEN "read2" ELSE "invoke"]
    /\ UNCHANGED <<shared, hist, ncalls, quota, ctxErr, lvalue, lerr, ret, via, startDone>>

\* Variant: the holder of the semaphore looks at its context once more and
\* gives up when it is canceled.
RecheckHonorsCancel(p) ==
    /\ pc[p] = "recheck"
    /\ IF ctxErr[p] # Nil
       THEN /\ ret' = [ret EXCEPT ![p] = [val |-> Zero, err |-> ctxErr[p]]]
            /\ via' = [via EXCEPT ![p] = "cancel"]
            /\ pc' = [pc EXCEPT ![p] = "release"]
       ELSE /\ pc' = [pc EXCEPT ![p] = IF done THEN "read2" ELSE "invoke"]
            /\ UNCHANGED <<ret, via>>
    /\ UNCHANGED <<shared, hist, ncalls, quota, ctxErr, lvalue, lerr, startDone>>

\* if d.done.Load() {            (second check, holding the semaphore)
Recheck(p) ==
    /\ pc[p] = "recheck"
    /\ pc' = [pc EXCEPT ![p] = IF done THEN "read2" ELSE "invoke"]
    /\ UNCHANGED <<shared, hist, ncalls, quota, ctxErr, lvalue, lerr, ret, via, startDone>>

\*     return d.value, nil       (operands evaluated, deferred receive pending)
Read2(p) ==
    /\ pc[p] = "read2"
    /\ ret' = [ret EXCEPT ![p] = [val |-> value, err |-> Nil]]
    /\ via' = [via EXCEPT ![p] = "recheck"]
    /\ pc' = [pc EXCEPT ![p] = "release"]
    /\ UNCHANGED <<shared, hist, ncalls, quota, ctxErr, lvalue, lerr, startDone>>

\* Variant: the producer is handed context.Background() instead of the
\* caller's context.
InvokeBackground(p) ==
    /\ pc[p] = "invoke"
    /\ IF f = Nil
       THEN /\ pc' = [pc EXCEPT ![p] = "release"]
            /\ via' = [via EXCEPT ![p] = "panic"]
            /\ UNCHANGED hist
       ELSE /\ pc' = [pc EXCEPT ![p] = "inF"]
            /\ calls' = calls + 1
            /\ fctx' = NoCtx
            /\ UNCHANGED <<via, produced, failed>>
    /\ UNCHANGED <<shared, ncalls, quota, ctxErr, lvalue, lerr, ret, startDone>>

\* value, err := d.f(ctx): the call.  Calling a nil func panics.
Invoke(p) ==
    /\ pc[p] = "invoke"
    /\ IF f = Nil
       THEN /\ pc' = [pc EXCEPT ![p] = "release"]
            /\ via' = [via EXCEPT ![p] = "panic"]
            /\ UNCHANGED hist
       ELSE /\ pc' = [pc EXCEPT ![p] = "inF"]
            /\ calls' = calls + 1
            /\ fctx' = Ctx(p)
            /\ UNCHANGED <<via, produced, failed>>
    /\ UNCHANGED <<shared, ncalls, quota, ctxErr, lvalue, lerr, ret, startDone>>

\* The errors the producer can report: its own, or the error of the context
\* it was handed (a producer that honours cancellation returns ctx.Err()).
ProducerErrs(p) == {errTemporary} \cup (IF ctxErr[p] # Nil THEN {ctxErr[p]} ELSE {})

\* value, err := d.f(ctx): the producer returns any pair (v, e): v may be the
\* zero value when e is nil, and a partial result when e is not nil.
ProducerReturn(p) ==
    /\ pc[p] = "inF"
    /\ \E v \in Values, e \in {Nil} \cup ProducerErrs(p) :
        /\ lvalue' = [lvalue EXCEPT ![p] = v]
        /\ lerr' = [lerr EXCEPT ![p] = e]
        /\ produced' = IF e = Nil THEN Append(produced, v) ELSE produced
        /\ failed' = IF e = Nil THEN failed ELSE failed + 1
    /\ pc' = [pc EXCEPT ![p] = "checkerr"]
    /\ fctx' = NoCtx
    /\ UNCHANGED <<shared, calls, ncalls, quota, ctxErr, ret, via, startDone>>

\* Variant: the receive on d.sem is not deferred but written before each
\* return statement, so a panic of the producer leaves the accessor with the
\* token still in the channel.
ProducerPanicNoRelease(p) ==
    /\ pc[p] = "inF"
    /\ failed' = failed + 1
    /\ pc' = [pc EXCEPT ![p] = "idle"]
    /\ ctxErr' = [ctxErr EXCEPT ![p] = Nil]
    /\ fctx' = NoCtx
    /\ UNCHANGED <<shared, calls, produced, ncalls, quota, lvalue, lerr, ret, via, startDone>>

\* value, err := d.f(ctx): the producer panics; the deferred receive runs
\* while the panic unwinds the accessor.
ProducerPanic(p) ==
    /\ pc[p] = "inF"
    /\ failed' = failed + 1
    /\ via' = [via EXCEPT ![p] = "panic"]
    /\ pc' = [pc EXCEPT ![p] = "release"]
    /\ fctx' = NoCtx
    /\ UNCHANGED <<shared, calls, produced, ncalls, quota, ctxErr, lvalue, lerr, ret, startDone>>

\* Variant: the first outcome of the producer is final, as with sync.Once:
\* an error is returned to the caller and d.done is set all the same.
CheckErrPoisons(p) ==
    /\ pc[p] = "checkerr"
    /\ IF lerr[p] # Nil
       THEN /\ ret' = [ret EXCEPT ![p] = [val |-> Zero, err |-> lerr[p]]]
            /\ via' = [via EXCEPT ![p] = "producer_err"]
            /\ pc' = [pc EXCEPT ![p] = "release"]
            /\ done' = TRUE
            /\ UNCHANGED value
       ELSE /\ value' = lvalue[p]
            /\ pc' = [pc EXCEPT ![p] = "store_done"]
            /\ UNCHANGED <<ret, via, done>>
    /\ UNCHANGED <<sem, f, hist, ncalls, quota, ctxErr, lvalue, lerr, startDone>>

\* Variant: the receive on d.sem is not deferred and the error return lacks
\* it, so a failed attempt leaves its token in the channel.
CheckErrNoRelease(p) ==
    /\ pc[p] = "checkerr"
    /\ IF lerr[p] # Nil
       THEN /\ ret' = [ret EXCEPT ![p] = [val |-> Zero, err |-> lerr[p]]]
            /\ via' = [via EXCEPT ![p] = "producer_err"]
            /\ pc' = [pc EXCEPT ![p] = "return"]
            /\ UNCHANGED value
       ELSE /\ value' = lvalue[p]
            /\ pc' = [pc EXCEPT ![p] = "store_done"]
            /\ UNCHANGED <<ret, via>>
    /\ UNCHANGED <<done, sem, f, hist, ncalls, quota, ctxErr, lvalue, lerr, startDone>>

\* Variant: d.f is cleared on the error return as well.
CheckErrClearsF(p) ==
    /\ pc[p] = "checkerr"
    /\ IF lerr[p] # Nil
       THEN /\ ret' = [ret EXCEPT ![p] = [val |-> Zero, err |-> lerr[p]]]
            /\ via' = [via EXCEPT ![p] = "producer_err"]
            /\ pc' = [pc EXCEPT ![p] = "release"]
            /\ f' = Nil
            /\ UNCHANGED value
       ELSE /\ value' = lvalue[p]
            /\ pc' = [pc EXCEPT ![p] = "store_done"]
            /\ UNCHANGED <<ret, via, f>>
    /\ UNCHANGED <<done, sem, hist, ncalls, quota, ctxErr, lvalue, lerr, startDone>>

\* Variant: d.done is stored before d.value is assigned, so d.done is true
\* while the cell is still unwritten.
CheckErrPublishesFirst(p) ==
    /\ pc[p] = "checkerr"
    /\ IF lerr[p] # Nil
       THEN /\ ret' = [ret EXCEPT ![p] = [val |-> Zero, err |-> lerr[p]]]
            /\ via' = [via EXCEPT ![p] = "producer_err"]
            /\ pc' = [pc EXCEPT ![p] = "release"]
            /\ UNCHANGED done
       ELSE /\ done' = TRUE
            /\ pc' = [pc EXCEPT ![p] = "store_done"]
            /\ UNCHANGED <<ret, via>>
    /\ UNCHANGED <<value, sem, f, hist, ncalls, quota, ctxErr, lvalue, lerr, startDone>>

\* Variant: d.value is assigned before the error is looked at, so a partial
\* result of a failed invocation lands in the cell.
CheckErrCachesPartial(p) ==
    /\ pc[p] = "checkerr"
    /\ value' = lvalue[p]
    /\ IF lerr[p] # Nil
       THEN /\ ret' = [ret EXCEPT ![p] = [val |-> Zero, err |-> lerr[p]]]
            /\ via' = [via EXCEPT ![p] = "producer_err"]
            /\ pc' = [pc EXCEPT ![p] = "release"]
       ELSE /\ pc' = [pc EXCEPT ![p] = "store_done"]
            /\ UNCHANGED <<ret, via>>
    /\ UNCHANGED <<done, sem, f, hist, ncalls, quota, ctxErr, lvalue, lerr, startDone>>

\* if err != nil { var zero T; return zero, err }
\* d.value = value
CheckErr(p) ==
    /\ pc[p] = "checkerr"
    /\ IF lerr[p] # Nil
       THEN /\ ret' = [ret EXCEPT ![p] = [val |-> Zero, err |-> lerr[p]]]
            /\ via' = [via EXCEPT ![p] = "producer_err"]
            /\ pc' = [pc EXCEPT ![p] = "release"]
            /\ UNCHANGED value
       ELSE /\ value' = lvalue[p]
            /\ pc' = [pc EXCEPT ![p] = "store_done"]
            /\ UNCHANGED <<ret, via>>
    /\ UNCHANGED <<done, sem, f, hist, ncalls, quota, ctxErr, lvalue, lerr, startDone>>

\* d.done.Store(true)
StoreDone(p) ==
    /\ pc[p] = "store_done"
    /\ done' = TRUE
    /\ pc' = [pc EXCEPT ![p] = "clear_f"]
    /\ UNCHANGED <<sem, value, f, hist, ncalls, quota, ctxErr, lvalue, lerr, ret, via, startDone>>

\* d.f = nil
ClearF(p) ==
    /\ pc[p] = "clear_f"
    /\ f' = Nil
    /\ pc' = [pc EXCEPT ![p] = "read3"]
    /\ UNCHANGED <<done, sem, value, hist, ncalls, quota, ctxErr, lvalue, lerr, ret, via, startDone>>

\* return d.value, nil           (operands evaluated, deferred receive pending)
Read3(p) ==
    /\ pc[p] = "read3"
    /\ ret' = [ret EXCEPT ![p] = [val |-> value, err |-> Nil]]
    /\ via' = [via EXCEPT ![p] = "success"]
    /\ pc' = [pc EXCEPT ![p] = "release"]
    /\ UNCHANGED <<shared, hist, ncalls, quota, ctxErr, lvalue, lerr, startDone>>

\* defer func() { <-d.sem }(): the receive takes the buffered token.  If a
\* sender is blocked on the full channel its token takes the freed slot and
\* it resumes with the send case of its select; the accessor then returns
\* (or the panic propagates to the caller) and its locals and its context go
\* out of scope.
Release(p) ==
    /\ pc[p] = "release"
    /\ sem > 0
    /\ IF Parked # {}
       THEN \E q \in Parked :
              /\ pc' = [pc EXCEPT ![p] = "idle", ![q] = "recheck"]
              /\ sem' = sem
       ELSE /\ pc' = [pc EXCEPT ![p] = "idle"]
            /\ sem' = sem - 1
    /\ ctxErr' = [ctxErr EXCEPT ![p] = Nil]
    /\ lvalue' = [lvalue EXCEPT ![p] = Zero]
    /\ lerr' = [lerr EXCEPT ![p] = Nil]
    /\ ret' = [ret EXCEPT ![p] = NoRet]
    /\ via' = [via EXCEPT ![p] = "none"]
    /\ startDone' = [startDone EXCEPT ![p] = FALSE]
    /\ UNCHANGED <<done, value, f, hist, ncalls, quota>>

\* The accessor returns to its caller on a path that never sent on d.sem (no
\* deferred call is pending); its locals and its context go out of scope.
Return(p) ==
    /\ pc[p] = "return"
    /\ pc' = [pc EXCEPT ![p] = "idle"]
    /\ ctxErr' = [ctxErr EXCEPT ![p] = Nil]
    /\ ret' = [ret EXCEPT ![p] = NoRet]
    /\ via' = [via EXCEPT ![p] = "none"]
    /\ startDone' = [startDone EXCEPT ![p] = FALSE]
    /\ UNCHANGED <<shared, hist, ncalls, quota, lvalue, lerr>>

Step(p) ==
    \/ Read1(p)
    \/ SelectAcquire(p) \/ SelectCanceled(p) \/ SelectBlock(p)
    \/ ReturnCanceled(p)
    \/ Recheck(p) \/ Read2(p)
    \/ Invoke(p)
    \/ CheckErr(p) \/ StoreDone(p) \/ ClearF(p) \/ Read3(p)
    \/ Release(p) \/ Return(p)

Next ==
    \E p \in Procs :
        \/ Call(p)
        \/ Cancel(p)
        \/ Step(p)
        \/ ProducerReturn(p)
        \/ ProducerPanic(p)

Spec == Init /\ [][Next]_vars

\* The scheduler runs every goroutine that can take a step of the accessor.
\* Nothing is assumed about the producer (it may never return), about the
\* callers (they may stop calling) or about the contexts (they may never be
\* canceled).
FairSpec == Spec /\ \A p \in Procs : WF_vars(Step(p))

\* As FairSpec, for the workload in which every goroutine calls.
WideFairSpec ==
    WideInit /\ [][Next]_vars /\ \A p \in Procs : WF_vars(Step(p))

\* As FairSpec, and every producer invocation terminates.
LiveSpec == FairSpec /\ \A p \in Procs : WF_vars(ProducerReturn(p) \/ ProducerPanic(p))

\* ---- properties -----------------------------------------------------------

InProducer == {p \in Procs : pc[p] = "inF"}

\* A call whose return operands are evaluated and which is about to return
\* them to its caller (after the deferred receive, when one is pending).
Returning(p) ==
    /\ pc[p] \in {"return", "release"}
    /\ via[p] \notin {"none", "panic"}

\* C1: at most one goroutine is inside the producer invocation d.f(ctx), in
\* every reachable state, whatever the mix of successes, failures and
\* cancellations.
C1_OneProducerAtATime == Cardinality(InProducer) <= 1

\* One goroutine is inside the producer while another one is blocked in the
\* select, after an earlier invocation failed.
C1_Witness ==
    \E p, q \in Procs :
        /\ pc[p] = "inF"
        /\ pc[q] = "parked"
        /\ failed > 0

\* C2: at most one producer invocation returns success; d.done goes from
\* false to true at most once and never back, and the step that sets it is
\* taken by the one goroutine that holds the semaphore and whose producer
\* invocation returned a nil error.
C2_DoneSetOnce ==
    /\ [](Len(produced) <= 1)
    /\ [][done' # done =>
            /\ ~done /\ done'
            /\ \E p \in Procs :
                 /\ pc[p] = "store_done" /\ pc'[p] = "clear_f"
                 /\ lerr[p] = Nil
                 /\ Holders = {p}
                 /\ sem = SemCap
                 /\ produced = <<lvalue[p]>>]_vars

\* d.done is set after a failed invocation and a successful one, and a later
\* holder found it set on its second check.
C2_Witness ==
    /\ done
    /\ failed > 0
    /\ Len(produced) = 1
    /\ \E p \in Procs : pc[p] = "read2"

\* C3: every call that returns a nil error returns the value of the single
\* successful producer invocation, on the fast path, on the re-check path and
\* on the path that ran the producer; so any two such calls return the same
\* value.
C3_SameValue ==
    \A p \in Procs :
        (Returning(p) /\ ret[p].err = Nil) =>
            /\ via[p] \in {"fast", "recheck", "success"}
            /\ Len(produced) = 1
            /\ ret[p].val = produced[1]

\* The producer succeeded with the zero value, and two calls are about to
\* return it with a nil error at the same time, one through the fast path
\* and one through the re-check path.
C3_Witness ==
    \E p, q \in Procs :
        /\ produced = <<Zero>> /\ done
        /\ Returning(p) /\ via[p] = "recheck" /\ ret[p] = [val |-> Zero, err |-> Nil]
        /\ Returning(q) /\ via[q] = "fast" /\ ret[q] = [val |-> Zero, err |-> Nil]

\* C4: when the producer always succeeds, the producer body is executed
\* exactly once however many calls run concurrently, and every call that is
\* not canceled returns the value of that one execution.
C4_SingleExecution ==
    failed = 0 =>
        /\ calls <= 1
        /\ \A p \in Procs :
             (Returning(p) /\ via[p] # "cancel") =>
                 /\ calls = 1
                 /\ produced # <<>>
                 /\ ret[p] = [val |-> produced[1], err |-> Nil]

\* No invocation failed; the goroutine that ran the producer is about to
\* return while another goroutine, which called concurrently, is blocked in
\* the select.
C4_Witness ==
    /\ failed = 0
    /\ \E p, q \in Procs :
        /\ Returning(p) /\ via[p] = "success"
        /\ pc[q] = "parked"

\* C5: once the producer has succeeded, after k failed invocations, exactly
\* k+1 invocations have occurred and no further one occurs; every call that
\* starts after the success returns the cached value and a nil error.
C5_RetryOnFailure ==
    /\ done => (calls = failed + 1 /\ InProducer = {})
    /\ \A p \in Procs :
         startDone[p] =>
             /\ done
             /\ pc[p] \in {"read1", "return"}
             /\ Returning(p) => ret[p] = [val |-> value, err |-> Nil]

\* The producer failed twice and then succeeded, and a call that started
\* after the success is about to return.
C5_Witness ==
    /\ done
    /\ failed = 2
    /\ calls = 3
    /\ \E p \in Procs : startDone[p] /\ pc[p] = "return"

\* C6: a call whose producer invocation returned an error leaves d as it was
\* before the call sent its token: d.done false, d.value never written
\* (still the zero value of construction), d.f the producer; when the call returns its token is gone or has become the token
\* of a blocked sender, and whoever holds the semaphore next and finds d.done
\* false invokes the producer again.
C6_FailureLeavesNoTrace ==
    /\ [](\A p \in Procs :
            (Returning(p) /\ via[p] = "producer_err") =>
                /\ ~done
                /\ value = Zero
                /\ produced = <<>>
                /\ f = "f"
                /\ Holders = {p})
    /\ [][\A p \in Procs :
            (Returning(p) /\ via[p] = "producer_err" /\ pc'[p] = "idle") =>
                /\ UNCHANGED <<done, value, f>>
                /\ \/ sem' = 0 /\ Holders' = {}
                   \/ \E q \in Parked :
                        sem' = SemCap /\ Holders' = {q} /\ pc'[q] = "recheck"]_vars
    /\ [][\A q \in Procs :
            (pc[q] = "recheck" /\ ~done /\ pc'[q] # "recheck") =>
                (pc'[q] = "invoke" /\ f' = "f")]_vars

\* After a failed invocation that left d untouched, a later holder of the
\* semaphore is inside the producer again.
C6_Witness ==
    /\ failed > 0
    /\ ~done
    /\ value = Zero
    /\ \E p \in Procs : pc[p] = "inF" /\ calls = failed + 1

\* C7: every call that returns a non-nil error returns the zero value with
\* it; the error is the one the producer returned, or the one the caller's
\* own context reports (context.Canceled or context.DeadlineExceeded,
\* whichever it is) when the call left the select through ctx.Done().
C7_ZeroValueAndExactError ==
    \A p \in Procs :
        (Returning(p) /\ ret[p].err # Nil) =>
            /\ ret[p].val = Zero
            /\ \/ /\ via[p] = "producer_err"
                  /\ ret[p].err = lerr[p]
               \/ /\ via[p] = "cancel"
                  /\ ret[p].err = ctxErr[p]
                  /\ ctxErr[p] \in CtxErrs

\* One call is about to return the producer's error although the producer
\* also returned a non-zero partial result, and another is about to return
\* context.DeadlineExceeded.
C7_Witness ==
    \E p, q \in Procs :
        /\ Returning(p) /\ via[p] = "producer_err" /\ lvalue[p] # Zero
        /\ Returning(q) /\ via[q] = "cancel" /\ ret[q].err = DeadlineExceeded

\* A step of goroutine p on the cancellation branch of the select.
CancelBranchStep(p) ==
    /\ pc'[p] # pc[p]
    /\ \/ pc'[p] \in {"woken", "canceled"}
       \/ pc[p] \in {"woken", "canceled"}
       \/ pc[p] = "return" /\ via[p] = "cancel"

\* C8: a caller whose context is canceled while it is blocked in the select
\* is resumed, and returns the zero value with the error its context reports;
\* no step of the cancellation branch invokes the producer, touches d or
\* moves another caller; and with the canceled caller gone, a caller that
\* holds the semaphore still completes its call.
C8_CancellationIsolation ==
    /\ [](\A p \in Procs :
            /\ pc[p] \in {"woken", "canceled"} => ctxErr[p] \in CtxErrs
            /\ (Returning(p) /\ via[p] = "cancel") =>
                 /\ pc[p] = "return"
                 /\ ctxErr[p] \in CtxErrs
                 /\ ret[p] = [val |-> Zero, err |-> ctxErr[p]])
    /\ [][\A p \in Procs :
            /\ (pc[p] = "parked" /\ ctxErr'[p] # ctxErr[p]) =>
                 (pc'[p] = "woken" /\ ctxErr'[p] \in CtxErrs)
            /\ (pc[p] = "woken" /\ pc'[p] # "woken") =>
                 /\ pc'[p] = "return"
                 /\ via'[p] = "cancel"
                 /\ ret'[p] = [val |-> Zero, err |-> ctxErr[p]]
            /\ CancelBranchStep(p) =>
                 /\ UNCHANGED <<done, sem, value, f, calls, fctx, produced, failed>>
                 /\ \A q \in Procs \ {p} :
                      /\ pc'[q] = pc[q]
                      /\ ret'[q] = ret[q]
                      /\ ctxErr'[q] = ctxErr[q]]_vars
    /\ \A p, q \in Procs :
         (pc[p] = "woken" /\ Holding(q)) ~> (pc[q] = "idle")

\* A caller blocked in the select has been resumed by the expiry of its
\* deadline while another caller is inside the producer.
C8_Witness ==
    \E p, q \in Procs :
        /\ pc[p] = "woken"
        /\ ctxErr[p] = DeadlineExceeded
        /\ pc[q] = "inF"

\* C9: a goroutine is blocked only in the select, and only while the
\* semaphore is full and its own context is not canceled; every other
\* position of the accessor has a step to take; the steps a resumed caller
\* takes to return leave every other goroutine where it is, blocked waiters
\* included; and a blocked caller resumed by its own context returns, even
\* if the producer invocation in flight never terminates, no other context
\* is ever canceled and other waiters stay blocked for ever.
C9_CanceledWaiterReturns ==
    /\ [](\A p \in Procs :
            /\ pc[p] = "parked" => (sem = SemCap /\ ctxErr[p] = Nil)
            /\ pc[p] \notin {"idle", "parked", "inF"} => ENABLED Step(p))
    /\ [][\A p \in Procs :
            ((pc[p] = "woken" \/ (pc[p] = "return" /\ via[p] = "cancel"))
               /\ pc'[p] # pc[p]) =>
                \A q \in Procs \ {p} :
                    pc'[q] = pc[q] /\ ctxErr'[q] = ctxErr[q]]_vars
    /\ \A p \in Procs : (pc[p] = "woken") ~> (pc[p] = "idle")

\* A blocked caller has been resumed by its context while a second waiter,
\* whose context is not canceled, is still blocked and a third caller is
\* inside a producer invocation, with a context that is not canceled.
C9_Witness ==
    \E p, q, r \in Procs :
        /\ pc[p] = "woken"
        /\ pc[r] = "parked" /\ ctxErr[r] = Nil
        /\ pc[q] = "inF"
        /\ ctxErr[q] = Nil

\* C10: cancellation has no effect on a caller that holds the semaphore: the
\* cancellation of a context changes nothing but that context's error, a
\* holder never goes to the cancellation branch, and it returns the cached
\* value (re-check path) or the outcome of its own producer invocation.
C10_HolderIgnoresCancel ==
    /\ [](\A p \in Procs :
            Holding(p) =>
                /\ via[p] \in {"none", "recheck", "producer_err", "success", "panic"}
                /\ via[p] = "recheck" => (done /\ ret[p] = [val |-> value, err |-> Nil])
                /\ via[p] = "producer_err" => ret[p] = [val |-> Zero, err |-> lerr[p]]
                /\ via[p] = "success" =>
                     (lerr[p] = Nil /\ ret[p] = [val |-> lvalue[p], err |-> Nil]))
    /\ [][\A p \in Procs :
            Holding(p) =>
                /\ pc'[p] \in HoldPcs \cup {"idle"}
                /\ (ctxErr[p] = Nil /\ ctxErr'[p] # Nil) =>
                     UNCHANGED <<shared, hist, pc, ncalls, lvalue, lerr, ret, via>>]_vars

\* A holder whose context was canceled is about to return the value its own
\* producer invocation returned.
C10_Witness ==
    \E p \in Procs :
        /\ Returning(p)
        /\ via[p] = "success"
        /\ ctxErr[p] = Canceled
        /\ ret[p].val # Zero

\* C11: a caller that sent its token takes it back on every exit path: the
\* return after the second check, the return of the producer's error, the
\* return of the value and the panic of the producer all end in the deferred
\* receive, which finds a token; so whenever no call is between its send and
\* its deferred receive the channel is empty and no caller is blocked on it.
C11_ReleasedOnEveryPath ==
    /\ \A p \in Procs :
         /\ Holding(p) => sem = SemCap
         /\ pc[p] = "release" =>
              /\ via[p] \in {"recheck", "producer_err", "success", "panic"}
              /\ sem > 0
    /\ Holders = {} => (sem = 0 /\ Parked = {})

\* The producer panicked: the accessor is unwinding with the deferred receive
\* pending while another caller is blocked on the channel.
C11_Witness ==
    \E p, q \in Procs :
        /\ pc[p] = "release"
        /\ via[p] = "panic"
        /\ pc[q] = "parked"

\* C12: a call that starts when d.done is true goes straight to the return
\* of d.value with a nil error: it never reaches the select (no send on
\* d.sem, no look at ctx.Done()), whatever the state of its context and
\* whoever holds the semaphore.
C12_FastPath ==
    \A p \in Procs :
        startDone[p] =>
            /\ pc[p] \in {"read1", "return"}
            /\ pc[p] = "return" =>
                 /\ via[p] = "fast"
                 /\ Len(produced) = 1
                 /\ ret[p] = [val |-> produced[1], err |-> Nil]

\* A call that started with d.done true and whose context is canceled is
\* about to return the cached value while another caller holds the
\* semaphore.
C12_Witness ==
    \E p, q \in Procs :
        /\ startDone[p]
        /\ pc[p] = "return"
        /\ ctxErr[p] # Nil
        /\ ret[p].val # Zero
        /\ Holding(q)

\* C13: while the producer runs, the context it was handed is the context
\* of the current call of the goroutine that holds the semaphore and invoked
\* it; outside an invocation the producer holds no context.
C13_ContextPropagated ==
    /\ \A p \in Procs : pc[p] = "inF" => (fctx = Ctx(p) /\ Holders = {p})
    /\ fctx # NoCtx => InProducer # {}

\* The producer runs on behalf of the second call of one goroutine while
\* the other goroutine, with a context of its own, is blocked in the select.
C13_Witness ==
    \E p, q \in Procs :
        /\ pc[p] = "inF"
        /\ ncalls[p] = 2
        /\ fctx = <<p, 2>>
        /\ pc[q] = "parked"

\* C14 as stated: once d.done is true no caller acquires the semaphore, that
\* is, no step taken with d.done true makes a goroutine a holder.
C14_NeverAcquiredAfterDone ==
    [][done => \A p \in Procs : Holding(p)' => Holding(p)]_vars

\* C14, amended: once d.done is true, no call that starts afterwards goes to
\* the select; a call that passed the first check before d.done was set may
\* still acquire the semaphore, and then it only runs the second check and
\* the return of the cached value, never the producer.
C14_NoNewCallAcquires ==
    \A p \in Procs :
        /\ startDone[p] => (done /\ pc[p] \notin {"select", "parked"} /\ ~Holding(p))
        /\ (done /\ Holding(p)) =>
             /\ pc[p] \in {"recheck", "read2", "clear_f", "read3", "release"}
             /\ pc[p] = "release" => via[p] \in {"recheck", "success"}
             /\ ~startDone[p]

\* A caller that passed the first check before d.done was set has acquired
\* the semaphore after d.done was set and after d.f was cleared.
C14_Witness ==
    \E p \in Procs :
        /\ pc[p] = "recheck"
        /\ done
        /\ f = Nil
        /\ ~startDone[p]

\* C15: no producer invocation begins with d.done true.  A caller that
\* passed the first check with d.done false and holds the semaphore once
\* d.done is true goes from the second check to the return of the cached
\* value: it returns (d.value, nil) without having invoked the producer.
C15_RecheckPreventsSecondRun ==
    \A p \in Procs :
        /\ pc[p] \in {"invoke", "inF", "checkerr"} => ~done
        /\ pc[p] = "read2" => (done /\ ~startDone[p])
        /\ via[p] = "recheck" =>
             /\ pc[p] = "release"
             /\ done
             /\ Len(produced) = 1
             /\ ret[p] = [val |-> produced[1], err |-> Nil]
             /\ lvalue[p] = Zero /\ lerr[p] = Nil
             /\ fctx # Ctx(p)

\* After exactly one producer invocation, a caller that was past the first
\* check returns the cached value through the second check.
C15_Witness ==
    \E p \in Procs :
        /\ via[p] = "recheck"
        /\ pc[p] = "release"
        /\ ~startDone[p]
        /\ calls = 1
        /\ ret[p].val # Zero

\* The positions at which a goroutine's next step reads d.value.
ReadPcs == {"read1", "read2", "read3"}

\* C16: d.value is written at most once, by the holder of the semaphore and
\* while d.done is still false (the write is the step from line 43 to line
\* 49, taken after the only successful invocation, and the cell changes in no
\* other step); until then the cell holds the zero value; whenever d.done is
\* true the cell holds the value the successful invocation returned; and a
\* goroutine reads the cell only with d.done true and with no write of the
\* cell pending.
C16_PublicationOrder ==
    /\ [](/\ done => (Len(produced) = 1 /\ value = produced[1])
          /\ produced = <<>> => value = Zero
          /\ \A p \in Procs :
               /\ pc[p] = "store_done" => (~done /\ value = lvalue[p])
               /\ pc[p] \in ReadPcs =>
                    /\ done
                    /\ \A q \in Procs : ~(pc[q] = "checkerr" /\ lerr[q] = Nil))
    /\ [][/\ value' # value =>
               \E p \in Procs : pc[p] = "checkerr" /\ pc'[p] = "store_done"
          /\ \A p \in Procs :
               (pc[p] = "checkerr" /\ pc'[p] = "store_done") =>
                  /\ value = Zero
                  /\ ~done /\ ~done'
                  /\ Holders = {p}
                  /\ lerr[p] = Nil
                  /\ produced = <<lvalue[p]>>
                  /\ value' = lvalue[p]]_vars

\* One goroutine is about to read the cell on the fast path while the
\* goroutine that wrote it has just stored d.done.
C16_Witness ==
    \E p, q \in Procs :
        /\ pc[p] = "read1"
        /\ pc[q] = "clear_f"
        /\ value # Zero

\* C17: a call that returns the accessor's cancellation result is never a
\* holder of the semaphore and has not invoked the producer, and none of its
\* steps on the cancellation branch changes d.done, d.value, d.f or the
\* number of tokens in d.sem: it neither sends nor receives on d.sem.
C17_CanceledCallTouchesNothing ==
    /\ [](\A p \in Procs :
            (via[p] = "cancel" \/ pc[p] \in {"canceled", "woken"}) =>
                /\ pc[p] \in {"canceled", "woken", "return"}
                /\ ~Holding(p)
                /\ lvalue[p] = Zero /\ lerr[p] = Nil
                /\ fctx # Ctx(p))
    /\ [][\A p \in Procs :
            CancelBranchStep(p) =>
                /\ UNCHANGED <<done, value, f, sem>>
                /\ Holders' = Holders
                /\ calls' = calls]_vars

\* A caller is about to return its context's error while the semaphore is
\* held by another caller that is inside the producer.
C17_Witness ==
    \E p, q \in Procs :
        /\ pc[p] = "return"
        /\ via[p] = "cancel"
        /\ sem = SemCap
        /\ pc[q] = "inF"

\* C18: when every producer invocation terminates and the scheduler is fair,
\* every call returns, whether or not its context is ever canceled and
\* however many attempts failed before it; and in no reachable state is a
\* caller blocked in the select while nobody holds the semaphore.
C18_EveryCallReturns ==
    /\ [](Parked # {} => (Holders # {} /\ sem = SemCap))
    /\ \A p \in Procs : (pc[p] # "idle") ~> (pc[p] = "idle")

\* A caller whose context is not canceled was blocked in the select behind
\* an attempt that failed, and has been handed the semaphore.
C18_Witness ==
    \E p \in Procs :
        /\ pc[p] = "recheck"
        /\ ctxErr[p] = Nil
        /\ ~done
        /\ failed > 0
        /\ \A q \in Procs \ {p} : pc[q] = "idle"

\* C19: d.f is not nil when it is called: a goroutine at the call holds the
\* semaphore and has just read d.done false, while d.f is nil only once
\* d.done is true; so the only panics are those of the producer itself.
C19_ProducerNeverNilWhenCalled ==
    /\ f = Nil => done
    /\ \A p \in Procs :
         /\ pc[p] \in {"invoke", "inF"} => (f = "f" /\ ~done /\ Holders = {p})
         /\ pc[p] = "clear_f" => (done /\ f = "f" /\ Holders = {p})
         /\ via[p] = "panic" => (f = "f" /\ ~done /\ failed > 0)

\* d.f has been cleared and a caller that was past the first check holds
\* the semaphore and is at the second check.
C19_Witness ==
    \E p \in Procs :
        /\ f = Nil
        /\ pc[p] = "recheck"
        /\ calls = 2

\* C20: d.sem holds 0 or 1 tokens, as many as there are goroutines between
\* their send and their deferred receive; so the deferred receive always
\* finds a token, and the token is the one its own goroutine accounts for.
C20_TokensMatchHolders ==
    /\ sem \in 0..1
    /\ sem = Cardinality(Holders)
    /\ \A p \in Procs : pc[p] = "release" => (sem = 1 /\ Holders = {p})

\* A goroutine is about to run its deferred receive while another one is
\* blocked on the full channel.
C20_Witness ==
    \E p, q \in Procs :
        /\ pc[p] = "release"
        /\ pc[q] = "parked"
        /\ via[p] = "producer_err"

TypeOK ==
    /\ done \in BOOLEAN
    /\ sem \in 0..SemCap
    /\ value \in Values
    /\ f \in {"f", Nil}
    /\ calls \in 0..(NumProcs * MaxCalls)
    /\ quota \in {DeepLoad, WideLoad}
    /\ \A p \in Procs : ncalls[p] \in 0..quota[p]
====
